---- MODULE Spec2Model ----
(***************************************************************************)
(* ConcatSink (src/src/index.ts): the underlying sink that routes the      *)
(* chunks of one logical stream into a succession of WritableStreams       *)
(* pulled from a supply.  The consumers are the LimitedWritableStream of   *)
(* the test suite (src/unnamed/part_000): a stream that accepts `size`     *)
(* chunks into an in-memory buffer and rejects the next one.               *)
(*                                                                         *)
(* Each sink operation (start, write, close, abort) is one action: the     *)
(* owning WritableStream never runs two of them at once.  An operation is  *)
(* computed by threading a record w (the "world": the sink's private       *)
(* fields, the supply's cursor and the consumers) through the calls the    *)
(* code makes, in the code's order; w.err carries a raised error and       *)
(* w.calls logs the collaborator calls the operation made.                 *)
(***************************************************************************)
EXTENDS Integers, Sequences, FiniteSets, TLC

\* ------------------------------------------------------------------ bounds
MaxConsumers == 3   \* consumers the supply can yield
MaxWrites == 4      \* write calls in one run
MaxTerm == 2        \* close and abort calls in one run

Sizes == {0, 1, 2}                 \* the `size` of a LimitedWritableStream
Reasons == {"r1", "r2"}            \* abort reasons
Kinds == {"array", "generator", "generatorThrowing"}

\* Error kinds.  "ok" is a normal return.
OK == "ok"
InvalidState == "InvalidState"          \* TypeError thrown by the sink itself
SupplyExhausted == "SupplyExhausted"    \* RangeError thrown by next()
Overflow == "Overflow"                  \* RangeError of LimitedWritableStream
Released == "Released"                  \* TypeError of a released writer
StreamState == "StreamState"            \* TypeError: stream closed or errored
AlreadyLocked == "AlreadyLocked"        \* TypeError of getWriter on a locked stream
CloseFailed == "CloseFailed"            \* raised by a consumer's close handler
AbortFailed == "AbortFailed"            \* raised by a consumer's abort handler
CleanupFailed == "CleanupFailed"        \* raised by the supply's finally block

VARIABLES
  gen,          \* #gen: the supply, [kind, caps]; caps[i] is the size of consumer i
  options,      \* #options: [preventAbort, preventClose]
  iter,         \* #iter: [set, pos, done]; set = FALSE is `undefined`
  writer,       \* #writer: [target, live]; target = 0 is `undefined`
  streams,      \* the consumers, by position in the supply
  cnt,          \* runs of the supply's finally block (the test's cnt)
  supplyReason, \* the reason thrown into the supply's suspended yield, or "none"
  nwrites,      \* write calls so far; the k-th call writes chunk k
  nterm,        \* close and abort calls so far
  started,      \* start has been called
  last,         \* the last operation: [op, err, calls, arg]
  hist          \* history: conforming = the calls so far follow the sink contract
                \* (start, writes while none failed, one close or abort);
                \* allOk = start and every write returned normally;
                \* closed, aborted = close and abort calls that returned normally

vars == <<gen, options, iter, writer, streams, cnt, supplyReason,
          nwrites, nterm, started, last, hist>>

N == Len(gen.caps)

\* ------------------------------------------------------------- the world
World ==
  [iter |-> iter, writer |-> writer, streams |-> streams, cnt |-> cnt,
   supplyReason |-> supplyReason, calls |-> <<>>, err |-> OK, res |-> "none"]

Raise(w, e) == [w EXCEPT !.err = e]
Call(w, name, target) == [w EXCEPT !.calls = Append(@, <<name, target>>)]

\* ------------------------------------------ the supply's cursor (#iter)
\* Array iterator: next() only; it has no return and no throw method.
arrayNext(w) ==
  IF w.iter.pos < N
    THEN [w EXCEPT !.iter.pos = @ + 1, !.res = "value"]
    ELSE [w EXCEPT !.iter.done = TRUE, !.res = "done"]

\* The finally block around a yield: counts, and raises in a throwing supply.
cleanup(w) ==
  LET c == [w EXCEPT !.cnt = @ + 1]
  IN IF gen.kind = "generatorThrowing"
       THEN [c EXCEPT !.iter.done = TRUE, !.err = CleanupFailed]
       ELSE c

\* Generator `for (i < n) try { yield stream_i } finally { cnt++ }`: next()
\* resumes the suspended yield, which leaves the try block through finally.
generatorNext(w) ==
  IF w.iter.done THEN [w EXCEPT !.res = "done"]
  ELSE LET c == IF w.iter.pos > 0 THEN cleanup(w) ELSE w
       IN IF c.err # OK THEN c
          ELSE IF c.iter.pos < N
            THEN [c EXCEPT !.iter.pos = @ + 1, !.res = "value"]
            ELSE [c EXCEPT !.iter.done = TRUE, !.res = "done"]

iterNext(w) ==
  LET c == Call(w, "next", 0)
  IN IF gen.kind = "array" THEN arrayNext(c) ELSE generatorNext(c)

\* return(): finishes the generator; a suspended yield runs its finally.
iterReturn(w) ==
  IF gen.kind = "array" \/ ~w.iter.set THEN w
  ELSE LET c == Call(w, "return", 0)
       IN IF c.iter.done THEN c
          ELSE IF c.iter.pos = 0 THEN [c EXCEPT !.iter.done = TRUE]
          ELSE [cleanup(c) EXCEPT !.iter.done = TRUE]

\* throw(reason): raises reason at the suspended yield; finally runs, and the
\* reason (or the finally block's own error) leaves the generator.
iterThrow(w, reason) ==
  IF gen.kind = "array" \/ ~w.iter.set THEN w
  ELSE LET c == Call(w, "throw", 0)
       IN IF c.iter.done \/ c.iter.pos = 0
            THEN [c EXCEPT !.iter.done = TRUE, !.err = reason]
            ELSE LET d == cleanup([c EXCEPT !.supplyReason = reason])
                 IN [d EXCEPT !.iter.done = TRUE,
                              !.err = IF d.err = OK THEN reason ELSE d.err]

\* --------------------------------- the consumers and their writer (#writer)
T(w) == w.writer.target

getWriter(w, i) ==
  LET c == Call(w, "getWriter", i)
  IN IF c.streams[i].locked THEN Raise(c, AlreadyLocked)
     ELSE [c EXCEPT !.streams[i].locked = TRUE,
                    !.writer = [target |-> i, live |-> TRUE]]

releaseLock(w) ==
  IF T(w) = 0 THEN w
  ELSE LET c == Call(w, "releaseLock", T(w))
       IN IF ~c.writer.live THEN c
          ELSE [c EXCEPT !.streams[T(w)].locked = FALSE, !.writer.live = FALSE]

writerReady(w) ==
  LET c == Call(w, "ready", T(w))
  IN IF ~c.writer.live THEN Raise(c, Released)
     ELSE IF c.streams[T(w)].state = "errored" THEN Raise(c, c.streams[T(w)].stored)
     ELSE c

\* LimitedWritableStream.write: one chunk over `size` closes and releases the
\* inner stream and throws, which errors the stream.
limitedWrite(w, i, chunk) ==
  IF Len(w.streams[i].data) + 1 > gen.caps[i]
    THEN [w EXCEPT !.streams[i].innerLocked = FALSE,
                   !.streams[i].state = "errored",
                   !.streams[i].stored = Overflow,
                   !.err = Overflow]
    ELSE [w EXCEPT !.streams[i].data = Append(@, chunk)]

writerWrite(w, chunk) ==
  LET c == Call(w, "write", T(w))
      s == c.streams[T(w)]
  IN IF ~c.writer.live THEN Raise(c, Released)
     ELSE IF s.state = "errored" THEN Raise(c, s.stored)
     ELSE IF s.state = "closed" THEN Raise(c, StreamState)
     ELSE limitedWrite(c, T(w), chunk)

\* writer.close(): the consumer's close handler runs on a writable stream only.
writerClose(w, raises) ==
  LET c == Call(w, "close", T(w))
      i == T(w)
  IN IF ~c.writer.live THEN Raise(c, Released)
     ELSE IF c.streams[i].state # "writable" THEN Raise(c, StreamState)
     ELSE IF raises
       THEN [c EXCEPT !.streams[i].state = "errored",
                      !.streams[i].stored = CloseFailed,
                      !.streams[i].fin = "closed",
                      !.err = CloseFailed]
       ELSE [c EXCEPT !.streams[i].state = "closed",
                      !.streams[i].fin = "closed",
                      !.streams[i].innerLocked = FALSE]

\* writer.abort(reason): a closed or errored stream resolves at once; a
\* writable one is errored with the reason and its abort handler runs.
writerAbort(w, reason, raises) ==
  LET c == Call(w, "abort", T(w))
      i == T(w)
  IN IF ~c.writer.live THEN Raise(c, Released)
     ELSE IF c.streams[i].state # "writable" THEN c
     ELSE LET d == [c EXCEPT !.streams[i].state = "errored",
                             !.streams[i].stored = reason,
                             !.streams[i].fin = "aborted",
                             !.streams[i].reason = reason]
          IN IF raises THEN Raise(d, AbortFailed)
             ELSE [d EXCEPT !.streams[i].innerLocked = FALSE]

\* ------------------------------------------------------------ ConcatSink
\* Mutant of next: the handle of the consumer left behind is not released.
next_noRelease(w, reason) ==
  IF ~w.iter.set THEN Raise(w, InvalidState)
  ELSE LET r == iterNext(w)
       IN IF r.err # OK THEN r
          ELSE IF r.res = "done" THEN Raise(r, SupplyExhausted)
          ELSE getWriter(r, r.iter.pos)

\* Mutant of next: an exhausted supply is not reported; the old writer stays.
next_noRangeError(w, reason) ==
  IF ~w.iter.set THEN Raise(w, InvalidState)
  ELSE LET r == iterNext(w)
       IN IF r.err # OK \/ r.res = "done" THEN r
          ELSE getWriter(releaseLock(r), r.iter.pos)

\* Mutant of next: the consumer left behind is closed before its release (the
\* lines commented out in next).
next_closesPrevious(w, reason) ==
  IF ~w.iter.set THEN Raise(w, InvalidState)
  ELSE LET r == iterNext(w)
       IN IF r.err # OK THEN r
          ELSE IF r.res = "done" THEN Raise(r, SupplyExhausted)
          ELSE LET c == IF ~options.preventClose /\ T(r) # 0
                          THEN writerClose(r, FALSE) ELSE r
               IN getWriter(releaseLock([c EXCEPT !.err = OK]), r.iter.pos)

\* private next(reason)
next(w, reason) ==
  IF ~w.iter.set THEN Raise(w, InvalidState)
  ELSE LET r == iterNext(w)
       IN IF r.err # OK THEN r
          ELSE IF r.res = "done" THEN Raise(r, SupplyExhausted)
          ELSE getWriter(releaseLock(r), r.iter.pos)

start(w) ==
  next([w EXCEPT !.iter = [set |-> TRUE, pos |-> 0, done |-> FALSE]], "none")

\* Mutant of write: a successful submission advances to the next consumer.
write_advanceEagerly(w, chunk) ==
  IF T(w) = 0 THEN Raise(w, InvalidState)
  ELSE LET a == writerReady(w)
           b == IF a.err = OK THEN writerWrite(a, chunk) ELSE a
       IN IF b.err = OK THEN next(b, "none")
          ELSE LET c == next([b EXCEPT !.err = OK], b.err)
               IN IF c.err # OK THEN c
                  ELSE LET d == writerReady(c)
                       IN IF d.err = OK THEN writerWrite(d, chunk) ELSE d

\* Mutant of write: after the advance the chunk is not submitted again.
write_noRetry(w, chunk) ==
  IF T(w) = 0 THEN Raise(w, InvalidState)
  ELSE LET a == writerReady(w)
           b == IF a.err = OK THEN writerWrite(a, chunk) ELSE a
       IN IF b.err = OK THEN b ELSE next([b EXCEPT !.err = OK], b.err)

\* Mutant of write: a failed retry advances and retries once more.
write_retryTwice(w, chunk) ==
  IF T(w) = 0 THEN Raise(w, InvalidState)
  ELSE LET a == writerReady(w)
           b == IF a.err = OK THEN writerWrite(a, chunk) ELSE a
       IN IF b.err = OK THEN b
          ELSE LET c == next([b EXCEPT !.err = OK], b.err)
               IN IF c.err # OK THEN c
                  ELSE LET d == writerWrite(writerReady(c), chunk)
                       IN IF d.err = OK THEN d
                          ELSE LET e == next([d EXCEPT !.err = OK], d.err)
                               IN IF e.err # OK THEN e
                                  ELSE writerWrite(writerReady(e), chunk)

\* Mutant of write: the retry goes ahead without looking at a failed advance.
write_retryBlind(w, chunk) ==
  IF T(w) = 0 THEN Raise(w, InvalidState)
  ELSE LET a == writerReady(w)
           b == IF a.err = OK THEN writerWrite(a, chunk) ELSE a
       IN IF b.err = OK THEN b
          ELSE LET c == next([b EXCEPT !.err = OK], b.err)
                   d == writerReady([c EXCEPT !.err = OK])
               IN IF d.err = OK THEN writerWrite(d, chunk) ELSE d

write(w, chunk) ==
  IF T(w) = 0 THEN Raise(w, InvalidState)
  ELSE LET a == writerReady(w)
           b == IF a.err = OK THEN writerWrite(a, chunk) ELSE a
       IN IF b.err = OK THEN b
          ELSE LET c == next([b EXCEPT !.err = OK], b.err)
               IN IF c.err # OK THEN c
                  ELSE LET d == writerReady(c)
                       IN IF d.err = OK THEN writerWrite(d, chunk) ELSE d

\* Mutant of close: preventClose is not looked at.
close_ignoresOption(w, raises) ==
  LET a == iterReturn(w)
  IN IF a.err # OK THEN a
     ELSE LET b == IF T(a) # 0 THEN writerClose(a, raises) ELSE a
          IN IF b.err # OK THEN b ELSE releaseLock(b)

\* Mutant of close: the handle is released before the consumer is closed.
close_releaseFirst(w, raises) ==
  LET a == iterReturn(w)
  IN IF a.err # OK THEN a
     ELSE LET b == releaseLock(a)
          IN IF ~options.preventClose /\ T(b) # 0
               THEN writerClose(b, raises) ELSE b

\* Mutant of close: the supply is not told that the run is complete.
close_noReturn(w, raises) ==
  LET b == IF ~options.preventClose /\ T(w) # 0
             THEN writerClose(w, raises) ELSE w
  IN IF b.err # OK THEN b ELSE releaseLock(b)

close(w, raises) ==
  LET a == iterReturn(w)
  IN IF a.err # OK THEN a
     ELSE LET b == IF ~options.preventClose /\ T(a) # 0
                     THEN writerClose(a, raises) ELSE a
          IN IF b.err # OK THEN b ELSE releaseLock(b)

\* Mutant of abort: the error of the supply's throw() is not caught.
abort_noCatch(w, reason, raises) ==
  LET a == iterThrow(w, reason)
  IN IF a.err # OK THEN a
     ELSE LET b == IF ~options.preventAbort /\ T(a) # 0
                     THEN writerAbort(a, reason, raises) ELSE a
          IN IF b.err # OK THEN b ELSE releaseLock(b)

\* Mutant of abort: the consumer is aborted without the reason.
abort_noReason(w, reason, raises) ==
  LET a == [iterThrow(w, reason) EXCEPT !.err = OK]
      b == IF ~options.preventAbort /\ T(a) # 0
             THEN writerAbort(a, "none", raises) ELSE a
  IN IF b.err # OK THEN b ELSE releaseLock(b)

abort(w, reason, raises) ==
  LET a == [iterThrow(w, reason) EXCEPT !.err = OK]
      b == IF ~options.preventAbort /\ T(a) # 0
             THEN writerAbort(a, reason, raises) ELSE a
  IN IF b.err # OK THEN b ELSE releaseLock(b)

\* ------------------------------------------------------------ the machine
NewStream ==
  [data |-> <<>>, state |-> "writable", stored |-> "none", locked |-> FALSE,
   innerLocked |-> TRUE, fin |-> "none", reason |-> "none"]

CapSeqs == UNION {[1..n -> Sizes] : n \in 0..MaxConsumers}

Init ==
  /\ gen \in [kind : Kinds, caps : CapSeqs]
  /\ options \in [preventAbort : BOOLEAN, preventClose : BOOLEAN]
  /\ iter = [set |-> FALSE, pos |-> 0, done |-> FALSE]
  /\ writer = [target |-> 0, live |-> FALSE]
  /\ streams = [i \in 1..Len(gen.caps) |-> NewStream]
  /\ cnt = 0
  /\ supplyReason = "none"
  /\ nwrites = 0
  /\ nterm = 0
  /\ started = FALSE
  /\ last = [op |-> "none", err |-> OK, calls |-> <<>>, arg |-> "none"]
  /\ hist = [conforming |-> TRUE, allOk |-> TRUE, closed |-> 0, aborted |-> 0]

Install(r) ==
  /\ iter' = r.iter
  /\ writer' = r.writer
  /\ streams' = r.streams
  /\ cnt' = r.cnt
  /\ supplyReason' = r.supplyReason

Terminated == nterm > 0

Start ==
  /\ ~started
  /\ LET r == start(World)
     IN /\ Install(r)
        /\ last' = [op |-> "start", err |-> r.err, calls |-> r.calls, arg |-> "none"]
        /\ hist' = [hist EXCEPT !.conforming = @ /\ nwrites = 0 /\ ~Terminated,
                                !.allOk = @ /\ r.err = OK]
  /\ started' = TRUE
  /\ UNCHANGED <<gen, options, nwrites, nterm>>

WriteCall ==
  /\ nwrites < MaxWrites
  /\ LET r == write(World, nwrites + 1)
     IN /\ Install(r)
        /\ last' = [op |-> "write", err |-> r.err, calls |-> r.calls, arg |-> "none"]
        /\ hist' = [hist EXCEPT !.conforming = @ /\ started /\ ~Terminated /\ hist.allOk,
                                !.allOk = @ /\ r.err = OK]
  /\ nwrites' = nwrites + 1
  /\ UNCHANGED <<gen, options, nterm, started>>

CloseCall ==
  /\ nterm < MaxTerm
  /\ \E raises \in BOOLEAN :
       LET r == close(World, raises)
       IN /\ Install(r)
          /\ last' = [op |-> "close", err |-> r.err, calls |-> r.calls, arg |-> "none"]
          /\ hist' = [hist EXCEPT !.conforming = @ /\ started /\ ~Terminated,
                                  !.closed = IF r.err = OK THEN @ + 1 ELSE @]
  /\ nterm' = nterm + 1
  /\ UNCHANGED <<gen, options, nwrites, started>>

AbortCall ==
  /\ nterm < MaxTerm
  /\ \E reason \in Reasons, raises \in BOOLEAN :
       LET r == abort(World, reason, raises)
       IN /\ Install(r)
          /\ last' = [op |-> "abort", err |-> r.err, calls |-> r.calls, arg |-> reason]
          /\ hist' = [hist EXCEPT !.conforming = @ /\ started /\ ~Terminated,
                                  !.aborted = IF r.err = OK THEN @ + 1 ELSE @]
  /\ nterm' = nterm + 1
  /\ UNCHANGED <<gen, options, nwrites, started>>

\* The owning WritableStream calls start from its constructor, before any
\* other operation of the sink.
Write == started /\ WriteCall
Close == started /\ CloseCall
Abort == started /\ AbortCall

Next == Start \/ Write \/ Close \/ Abort

Spec == Init /\ [][Next]_vars

\* The sink called directly, in any order: write, close and abort may come
\* before start.
NextRaw == Start \/ WriteCall \/ CloseCall \/ AbortCall

SpecRaw == Init /\ [][NextRaw]_vars

\* start called on a sink that was started before: the cursor is obtained
\* afresh from the supply.
Restart ==
  /\ started
  /\ LET r == start(World)
     IN /\ Install(r)
        /\ last' = [op |-> "start", err |-> r.err, calls |-> r.calls, arg |-> "none"]
        /\ hist' = [hist EXCEPT !.conforming = FALSE,
                                !.allOk = @ /\ r.err = OK]
  /\ UNCHANGED <<gen, options, nwrites, nterm, started>>

NextRestart == Next \/ Restart

SpecRestart == Init /\ [][NextRestart]_vars

\* ------------------------------------------------------------ properties
Min(a, b) == IF a < b THEN a ELSE b

\* The chunks a..b in write order (chunk k is the k-th write call's).
Ids(a, b) == [j \in 1..(IF b >= a THEN b - a + 1 ELSE 0) |-> a + j - 1]

RECURSIVE SumCaps(_)
SumCaps(n) == IF n = 0 THEN 0 ELSE SumCaps(n - 1) + gen.caps[n]

\* The consumers' received data, concatenated in supply order.
RECURSIVE Concat(_)
Concat(n) == IF n = 0 THEN <<>> ELSE Concat(n - 1) \o streams[n].data

Uniform(K) == \A i \in 1..N : gen.caps[i] = K

\* The supply raises no error of its own.
QuietSupply == gen.kind # "generatorThrowing"

CountCalls(calls, name) == Cardinality({k \in DOMAIN calls : calls[k][1] = name})

NoneLocked == \A i \in 1..N : ~streams[i].locked
\* C1: with N >= 1 consumers of one capacity K and a supply that raises no
\* error of its own, in a run that follows the contract the first N*K writes
\* all return normally and consumer i holds exactly the chunks
\* (i-1)*K+1 .. min(i*K, number of writes), in write order.
C1_ContiguousDistribution ==
  \A K \in Sizes :
    (Uniform(K) /\ N >= 1 /\ started /\ hist.conforming /\ QuietSupply
       /\ nwrites <= N * K)
    => /\ hist.allOk
       /\ \A i \in 1..N :
            streams[i].data = Ids((i - 1) * K + 1, Min(i * K, nwrites))

\* Three consumers of capacity 2 fed four chunks and closed: [1,2], [3,4], [].
C1_Witness ==
  /\ gen.caps = <<2, 2, 2>>
  /\ hist.conforming /\ hist.allOk /\ hist.closed = 1
  /\ streams[1].data = <<1, 2>>
  /\ streams[2].data = <<3, 4>>
  /\ streams[3].data = <<>>

\* C2 as stated: for consumers of any capacities whose sum is the input
\* length, after start, one write per chunk and close, the consumers' data
\* concatenated in supply order is the input.
C2_RoundTripAnyCapacities ==
  (QuietSupply /\ hist.conforming /\ last.op = "close" /\ nwrites = SumCaps(N))
    => Concat(N) = Ids(1, nwrites)

\* C2 amended: the same when every consumer after the first has a capacity
\* of at least 1 (and then every write returns normally).
C2_RoundTrip ==
  (QuietSupply /\ started /\ hist.conforming /\ N >= 1
     /\ (\A i \in 2..N : gen.caps[i] >= 1) /\ nwrites <= SumCaps(N))
    => /\ hist.allOk
       /\ nwrites = SumCaps(N) => Concat(N) = Ids(1, nwrites)

\* Capacities 0, 2, 1 fed three chunks and closed.
C2_Witness ==
  /\ gen.caps = <<0, 2, 1>>
  /\ hist.conforming /\ hist.allOk /\ hist.closed = 1
  /\ nwrites = 3
  /\ Concat(N) = <<1, 2, 3>>
  /\ streams[3].data = <<3>>

\* C3 as stated: with N consumers of one capacity K, the write number N*K+1
\* of a run that follows the contract fails with SupplyExhausted.
C3_ExhaustionAnyCapacity ==
  \A K \in Sizes :
    (Uniform(K) /\ N >= 1 /\ QuietSupply /\ hist.conforming
       /\ last.op = "write" /\ nwrites = N * K + 1)
    => last.err = SupplyExhausted

\* C3 amended: the same for K >= 1 (or a single consumer); the writes before
\* it all return normally.
C3_Exhaustion ==
  \A K \in Sizes :
    (Uniform(K) /\ N >= 1 /\ (K >= 1 \/ N = 1) /\ QuietSupply
       /\ started /\ hist.conforming)
    => /\ nwrites <= N * K => hist.allOk
       /\ (last.op = "write" /\ nwrites = N * K + 1)
            => (last.err = SupplyExhausted /\ Concat(N) = Ids(1, N * K))

\* Three consumers of capacity 1: the fourth write finds the supply exhausted.
C3_Witness ==
  /\ gen.caps = <<1, 1, 1>>
  /\ hist.conforming
  /\ last.op = "write" /\ nwrites = 4
  /\ last.err = SupplyExhausted
\* C4: after an advance that failed with exhaustion, or a close or an abort
\* that raised, no consumer is left exclusively held by the sink.
C4_ReleasedOnEveryExit ==
  (last.err = SupplyExhausted \/ (last.op \in {"close", "abort"} /\ last.err # OK))
    => NoneLocked

\* C5: after start, writes that all returned normally and a close that
\* returned normally, no consumer is locked by the sink (and, when close is
\* forwarded, every consumer pulled has let go of its in-memory stream).
C5_AllReleasedAfterClose ==
  (hist.conforming /\ hist.allOk /\ nterm = 1 /\ hist.closed = 1)
    => /\ NoneLocked
       /\ ~writer.live
       /\ ~options.preventClose
            => \A i \in 1..iter.pos : ~streams[i].innerLocked

\* A closed run that advanced twice.
C5_Witness ==
  /\ hist.conforming /\ hist.allOk /\ hist.closed = 1
  /\ iter.pos = 3 /\ nwrites >= 3
  /\ NoneLocked

\* C6: a write pulls from the supply at most once; when it advanced, the
\* calls that follow are one ready and one write on the new handle, a
\* successful retry stores the write's own chunk there, and a failed retry
\* returns the new consumer's error.
C6_RetryExactlyOnce ==
  last.op = "write" =>
    LET c == last.calls
        t == writer.target
    IN /\ CountCalls(c, "next") <= 1
       /\ CountCalls(c, "getWriter") <= 1
       /\ CountCalls(c, "getWriter") = 1 =>
            /\ Len(c) >= 3
            /\ SubSeq(c, Len(c) - 2, Len(c))
                 = << <<"getWriter", t>>, <<"ready", t>>, <<"write", t>> >>
            /\ last.err = OK =>
                 (streams[t].data # <<>>
                    /\ streams[t].data[Len(streams[t].data)] = nwrites)
            /\ last.err # OK =>
                 (last.err = streams[t].stored /\ nwrites \notin
                    {streams[t].data[k] : k \in DOMAIN streams[t].data})

\* A retry that failed while the supply still had a consumer to yield.
C6_Witness ==
  /\ last.op = "write"
  /\ CountCalls(last.calls, "next") = 1
  /\ CountCalls(last.calls, "write") = 2
  /\ last.err = Overflow
  /\ iter.pos < N /\ ~iter.done
\* C7: a write made while the sink holds no live handle (none installed yet,
\* or the handle released by a completed close or abort) fails with
\* InvalidState, submits nothing and leaves the cursor where it is.
C7_WriteWithoutHandleIsInvalidState ==
  [][(last'.op = "write" /\ nwrites' = nwrites + 1
        /\ (writer.target = 0 \/ ~writer.live))
       => (last'.err = InvalidState /\ last'.calls = <<>>
             /\ streams' = streams /\ iter' = iter)]_vars

\* C8: a close after a close that returned normally, and an abort after an
\* abort that returned normally, return normally.
C8_RepeatTerminationDoesNotRaise ==
  [][/\ (last'.op = "close" /\ nterm' = nterm + 1 /\ hist.closed >= 1)
          => last'.err = OK
     /\ (last'.op = "abort" /\ nterm' = nterm + 1 /\ hist.aborted >= 1)
          => last'.err = OK]_vars

\* Consumers that rejected a chunk for lack of capacity.
Overflowed == {i \in 1..N : streams[i].stored = Overflow}

\* C9: with a generator supply whose finally block counts its runs, while a
\* consumer that has not overflowed is active the count is the number of
\* overflowed consumers; right after the first close it is one more; and the
\* count never exceeds the number of consumers pulled.
C9_CleanupCount ==
  gen.kind = "generator" =>
    /\ (nterm = 0 /\ writer.live /\ streams[writer.target].state = "writable")
         => cnt = Cardinality(Overflowed)
    /\ (nterm = 1 /\ last.op = "close" /\ writer.target # 0
          /\ writer.target \notin Overflowed)
         => cnt = Cardinality(Overflowed) + 1
    /\ cnt <= iter.pos

\* Three consumers of capacity 2 fed four chunks: the count is 2 after close,
\* and the third consumer, never pulled, adds nothing.
C9_Witness ==
  /\ gen = [kind |-> "generator", caps |-> <<2, 2, 2>>]
  /\ hist.conforming /\ hist.allOk /\ hist.closed = 1
  /\ nwrites = 4 /\ iter.pos = 2
  /\ Overflowed = {1}
  /\ cnt = 2

\* C10: an abort with a reason throws that reason into a generator supply
\* suspended at a yield, whose finally block then runs; it aborts the live
\* writable consumer with the same reason unless preventAbort is set, and
\* with preventAbort it makes no abort call on the consumer at all.
C10_AbortPropagation ==
  [][(last'.op = "abort" /\ nterm' = nterm + 1) =>
       LET i == writer.target
       IN /\ (gen.kind # "array" /\ iter.set /\ ~iter.done /\ iter.pos > 0)
               => (supplyReason' = last'.arg /\ cnt' = cnt + 1 /\ iter'.done)
          /\ (gen.kind # "array" /\ iter.set)
               => last'.calls[1] = <<"throw", 0>>
          /\ (writer.live /\ streams[i].state = "writable" /\ ~options.preventAbort)
               => (streams'[i].fin = "aborted" /\ streams'[i].reason = last'.arg
                     /\ streams'[i].state = "errored")
          /\ (i # 0 /\ ~options.preventAbort)
               => CountCalls(last'.calls, "abort") = 1
          /\ options.preventAbort
               => (CountCalls(last'.calls, "abort") = 0
                     /\ \A j \in 1..N : streams'[j].fin = streams[j].fin)]_vars

\* An abort that reached both the suspended generator and the active consumer.
C10_Witness ==
  /\ last.op = "abort" /\ last.arg = "r2" /\ last.err = OK
  /\ gen.kind = "generator"
  /\ supplyReason = "r2"
  /\ writer.target = 2
  /\ streams[2].fin = "aborted" /\ streams[2].reason = "r2"
  /\ cnt = 2
\* Errors that come out of the supply's throw(): the reason itself, or the
\* error of its finally block.
SupplyErrors == Reasons \cup {CleanupFailed}

\* C11: an abort whose signal into the supply raised (a generator's throw()
\* always does) never returns the supply's error; the abort call on the
\* consumer follows the signal unless preventAbort, the release follows when
\* that call did not raise, and when it raised the abort returns the
\* consumer's own error.
C11_AbortSwallowsSupplyError ==
  (last.op = "abort" /\ last.calls # <<>> /\ last.calls[1] = <<"throw", 0>>) =>
    LET c == last.calls
        t == writer.target
    IN /\ last.err \notin SupplyErrors
       /\ (t # 0 /\ ~options.preventAbort)
            => (Len(c) >= 2 /\ c[2] = <<"abort", t>>)
       /\ (t # 0 /\ last.err = OK)
            => (c[Len(c)] = <<"releaseLock", t>> /\ ~streams[t].locked)
       /\ last.err # OK
            => (last.err \in {AbortFailed, Released} /\ c[Len(c)] = <<"abort", t>>)

\* The finally block of the supply raised during the abort; the consumer was
\* aborted and released all the same, and the abort returned normally.
C11_Witness ==
  /\ last.op = "abort" /\ last.err = OK /\ last.arg = "r1"
  /\ gen.kind = "generatorThrowing" /\ cnt = 1 /\ supplyReason = "r1"
  /\ last.calls = << <<"throw", 0>>, <<"abort", 1>>, <<"releaseLock", 1>> >>
  /\ streams[1].fin = "aborted" /\ ~streams[1].locked

Locked == {i \in 1..N : streams[i].locked}

\* C12: at most one consumer is locked by the sink, and it is the one the
\* live writer is on; in an operation that acquires a handle while an
\* earlier one exists, the call just before getWriter releases that one.
C12_AtMostOneHandle ==
  /\ Cardinality(Locked) <= 1
  /\ \A i \in Locked : writer.target = i /\ writer.live
  /\ \A k \in DOMAIN last.calls :
       (last.calls[k][1] = "getWriter" /\ last.op = "write")
         => (k > 1 /\ last.calls[k - 1][1] = "releaseLock"
               /\ last.calls[k - 1][2] # last.calls[k][2])

\* After an advance from the first consumer to the second.
C12_Witness ==
  /\ last.op = "write" /\ last.err = OK
  /\ Locked = {2} /\ writer.target = 2
  /\ CountCalls(last.calls, "getWriter") = 1
  /\ streams[1].data # <<>> /\ streams[2].data # <<>>

\* C13: with an empty supply start fails with SupplyExhausted, the sink never
\* has a handle, and every write fails with InvalidState.
C13_EmptySupply ==
  (N = 0 /\ started) =>
    /\ writer.target = 0
    /\ ~hist.allOk
    /\ last.op = "start" => last.err = SupplyExhausted
    /\ last.op = "write" => (last.err = InvalidState /\ last.calls = <<>>)

\* A write on a sink whose supply was empty.
C13_Witness ==
  /\ N = 0 /\ started
  /\ last.op = "write" /\ last.err = InvalidState
  /\ nwrites = 2
\* C14: with preventClose no consumer is ever closed by the sink, and close
\* still signals the supply and, returning normally, releases the handle;
\* with preventAbort the same for abort; without the option the close or
\* abort call on the consumer is made.
C14_PreventOptions ==
  LET c == last.calls
      t == writer.target
  IN /\ options.preventClose => \A i \in 1..N : streams[i].fin # "closed"
     /\ options.preventAbort => \A i \in 1..N : streams[i].fin # "aborted"
     /\ last.op = "close" =>
          /\ gen.kind # "array" => (c # <<>> /\ c[1] = <<"return", 0>>)
          /\ options.preventClose =>
               /\ CountCalls(c, "close") = 0
               /\ last.err \in {OK, CleanupFailed}
               /\ (last.err = OK /\ t # 0)
                    => (c[Len(c)] = <<"releaseLock", t>> /\ ~streams[t].locked)
          /\ (~options.preventClose /\ t # 0 /\ last.err # CleanupFailed)
               => CountCalls(c, "close") = 1
          /\ (~options.preventClose /\ t # 0 /\ last.err = OK)
               => streams[t].fin = "closed"
     /\ last.op = "abort" =>
          /\ gen.kind # "array" => (c # <<>> /\ c[1] = <<"throw", 0>>)
          /\ options.preventAbort =>
               /\ CountCalls(c, "abort") = 0
               /\ last.err = OK
               /\ t # 0 => (c[Len(c)] = <<"releaseLock", t>> /\ ~streams[t].locked)
          /\ (~options.preventAbort /\ t # 0)
               => (CountCalls(c, "abort") = 1
                     /\ (last.err = OK => streams[t].state # "writable"))

\* A close with preventClose: the generator is finished, the consumer is
\* released and still writable.
C14_Witness ==
  /\ options.preventClose
  /\ last.op = "close" /\ last.err = OK
  /\ gen.kind = "generator" /\ cnt = 2 /\ iter.done
  /\ last.calls = << <<"return", 0>>, <<"releaseLock", 2>> >>
  /\ streams[2].state = "writable" /\ streams[2].fin = "none"
  /\ ~streams[2].locked

\* Consumers whose close or abort handler the sink has invoked.
Finalized == {i \in 1..N : streams[i].fin # "none"}

\* C15: start and write make no close or abort call; each close or abort of
\* the sink finalizes at most one consumer, the active one; in a run that
\* follows the contract every consumer left behind is unlocked and was
\* neither closed nor aborted.
C15_AdvanceDoesNotFinalize ==
  /\ last.op \in {"start", "write"}
       => (CountCalls(last.calls, "close") = 0
             /\ CountCalls(last.calls, "abort") = 0)
  /\ Cardinality(Finalized) <= nterm
  /\ hist.conforming =>
       /\ Finalized \subseteq {writer.target}
       /\ \A i \in 1..N :
            i < writer.target => (streams[i].fin = "none" /\ ~streams[i].locked)

\* Two consumers left behind by advances, the third closed by the sink.
C15_Witness ==
  /\ hist.conforming /\ hist.closed = 1
  /\ writer.target = 3
  /\ Finalized = {3} /\ streams[3].fin = "closed"
  /\ streams[1].state = "errored" /\ streams[2].state = "errored"

CloseRank(name) ==
  CASE name = "return" -> 1
    [] name = "close" -> 2
    [] name = "releaseLock" -> 3
    [] OTHER -> 0

\* C16: the calls of a close are, in this order, the supply's return, the
\* consumer's close and the release; a consumer is closed only after a
\* generator supply was signalled, and a handle is released only after the
\* consumer's close returned normally (or was suppressed by preventClose).
C16_CloseOrder ==
  last.op = "close" =>
    LET c == last.calls
        t == writer.target
    IN /\ \A k \in DOMAIN c : CloseRank(c[k][1]) > 0
       /\ \A j, k \in DOMAIN c : j < k => CloseRank(c[j][1]) < CloseRank(c[k][1])
       /\ (CountCalls(c, "close") = 1 /\ gen.kind # "array")
            => c[1] = <<"return", 0>>
       /\ (CountCalls(c, "releaseLock") = 1 /\ ~options.preventClose)
            => /\ Len(c) >= 2
               /\ c[Len(c) - 1] = <<"close", t>>
               /\ c[Len(c)] = <<"releaseLock", t>>
               /\ last.err = OK
               /\ streams[t].state = "closed"

\* A close that made all three calls.
C16_Witness ==
  /\ last.op = "close" /\ last.err = OK
  /\ last.calls = << <<"return", 0>>, <<"close", 1>>, <<"releaseLock", 1>> >>
  /\ streams[1].state = "closed" /\ streams[1].data # <<>>
\* The active consumer takes one more chunk: the first submission of a write
\* succeeds.
Accepting ==
  /\ writer.target # 0 /\ writer.live
  /\ streams[writer.target].state = "writable"
  /\ Len(streams[writer.target].data) + 1 <= gen.caps[writer.target]

\* C17: a write whose first submission succeeds returns normally after one
\* ready and one write on the current handle and changes nothing but the
\* active consumer's data: cursor, writer, cleanup count and every lock stay
\* as they were.  The cursor position changes only in start and in a write
\* whose first submission failed.
C17_SuccessfulWriteFrame ==
  [][/\ (last'.op = "write" /\ nwrites' = nwrites + 1 /\ Accepting) =>
          LET t == writer.target
          IN /\ last'.err = OK
             /\ last'.calls = << <<"ready", t>>, <<"write", t>> >>
             /\ iter' = iter /\ writer' = writer
             /\ cnt' = cnt /\ supplyReason' = supplyReason
             /\ streams' = [streams EXCEPT ![t].data = Append(@, nwrites')]
     /\ iter'.pos # iter.pos =>
          \/ last'.op = "start"
          \/ (last'.op = "write" /\ nwrites' = nwrites + 1
                /\ writer.target # 0 /\ ~Accepting)]_vars

\* Two chunks stored in the second consumer by first submissions.
C17_Witness ==
  /\ last.op = "write" /\ last.err = OK
  /\ last.calls = << <<"ready", 2>>, <<"write", 2>> >>
  /\ Len(streams[2].data) = 2
  /\ iter.pos = 2 /\ streams[2].locked
\* The data of all consumers is the chunks 1..k written first, in order.
IsPrefix == \E k \in 0..nwrites : Concat(N) = Ids(1, k)

\* No chunk twice and none out of order.
Increasing ==
  \A j, k \in 1..Len(Concat(N)) : j < k => Concat(N)[j] < Concat(N)[k]

\* C18 as stated: in every reachable state of any run the concatenation in
\* supply order of the consumers' data is a prefix of the chunks written.
C18_PrefixInAnyRun == IsPrefix

\* C18, amended: chunks are never duplicated or reordered, the chunk of the
\* write that just failed is stored nowhere, and the concatenation is a prefix
\* of the chunks written when every consumer after the first has a capacity
\* of at least 1 (a failed write is then followed by no stored chunk).
C18_Prefix ==
  /\ Increasing
  /\ \A j \in 1..Len(Concat(N)) : Concat(N)[j] \in 1..nwrites
  /\ (last.op = "write" /\ last.err # OK) =>
       \A j \in 1..Len(Concat(N)) : Concat(N)[j] # nwrites
  /\ (\A i \in 2..N : gen.caps[i] >= 1) => IsPrefix
  /\ hist.allOk => Concat(N) = Ids(1, nwrites)

\* A run that ended in exhaustion: three chunks over two consumers, the fourth
\* write failed and its chunk is stored nowhere.
C18_Witness ==
  /\ N = 2 /\ gen.caps = <<1, 2>>
  /\ nwrites = 4 /\ last.op = "write" /\ last.err = SupplyExhausted
  /\ Concat(N) = <<1, 2, 3>>
\* The consumers a step calls into (acquire, release, ready, write, close,
\* abort), from the calls of the operation the step ran.
Touched(calls) == {calls[k][2] : k \in DOMAIN calls} \ {0}

\* The consumers a step acquires a handle on.
Acquired(calls) ==
  {calls[k][2] : k \in {j \in DOMAIN calls : calls[j][1] = "getWriter"}}

\* C19: the cursor is forward-only, for any sequence of start, write, close
\* and abort calls: the active consumer never moves back and never skips a
\* consumer of the supply, a handle is acquired only on the consumer that the
\* operation makes active, and no operation acquires, releases, writes to,
\* closes or aborts a consumer that comes before the active one or changes it.
C19_ForwardOnly ==
  [][/\ writer'.target \in {writer.target, writer.target + 1}
     /\ Acquired(last'.calls) \subseteq {writer'.target}
     /\ \A i \in Touched(last'.calls) : i >= writer.target
     /\ \A i \in 1..N : i < writer.target => streams'[i] = streams[i]]_vars

====
